---- MODULE Spec2Model ----
(***************************************************************************)
(* A model of the two scraping pipelines of open_data_romania:             *)
(*   - parliament-scraper-selenium.py  (lower chamber, ParliamentScraper)  *)
(*   - senators-scraper.py             (upper chamber, SenatorsScraper)    *)
(*   - extract-deputies.py, extract-senators.py (listing-only scripts)     *)
(*                                                                         *)
(* Text is modelled as a sequence of characters.  An ASCII character is    *)
(* the one-character string itself; a non-ASCII character is written by    *)
(* its name: "ordm" (U+00BA), "thorn" (U+00FE), "THORN" (U+00DE), "ordf"   *)
(* (U+00AA), "s_comma" (U+0219), "t_comma" (U+021B), "T_comma" (U+021A),   *)
(* "S_comma" (U+0218), "t_cedilla" (U+0163), "a_breve" (U+0103), "atilde"  *)
(* (U+00E3).                                                               *)
(***************************************************************************)
EXTENDS Integers, Sequences, FiniteSets, TLC

VARIABLES
    \* ---- Character Normalizer runs (SpecNorm) ----
    nvariant,   \* which copy of fix_romanian_chars is applied
    ntext,      \* the Python value given to fix_romanian_chars
    nonce,      \* fix_romanian_chars(ntext)
    ntwice,     \* fix_romanian_chars(fix_romanian_chars(ntext))
    npc,        \* "idle" | "input" | "once" | "twice"
    \* ---- profile URL round trips (SpecUrl) ----
    usource,    \* which listing parser is run
    udoc,       \* the listing markup given to it
    urecs,      \* the Basic Records it returned
    uids,       \* the id re-extracted from each record's url
    upc,        \* "idle" | "input" | "parsed" | "done"
    \* ---- a run of process_all (Spec) ----
    chamber,    \* "lower": ParliamentScraper, "upper": SenatorsScraper
    use_cache,  \* self.use_cache
    listing,    \* the listing document: its tables (lower), its cards (upper)
    files,      \* deputies_dir / senators_dir: file name -> page, or no file
    records,    \* the deputies / senators list
    pc,         \* "idle" | "start" | "download" | "write" | "returned" | "completed"
    pos,        \* position of the running for loop in records
    events,     \* what the run has done so far: fetches, sleeps, parses, ...
    csv,        \* the output file as this run has written it
    emitted,    \* for each data row of csv, the position of its record
    \* ---- one call of a parser on bounded markup (SpecDeputyPage,
    \*      SpecSenatorPage, SpecCards) ----
    tparser,    \* which parser is called
    tinput,     \* the markup given to it
    toutput,    \* the list it returned
    tpc         \* "idle" | "input" | "returned"

nvars == <<nvariant, ntext, nonce, ntwice, npc>>

uvars == <<usource, udoc, urecs, uids, upc>>

pvars == <<chamber, use_cache, listing, files, records, pc, pos, events, csv,
           emitted>>

tvars == <<tparser, tinput, toutput, tpc>>

-----------------------------------------------------------------------------
(* Bounds of the model *)

\* longest text given to the Character Normalizer
MaxLen == 3

\* most chunks an href of the round-trip runs is made of
MaxChunks == 3

\* most data rows (lower chamber) or cards (upper chamber) of a listing
MaxRows == 3

\* most nodes of the committees paragraph or elements of a senator page
\* given to a detail parser on its own
MaxNodes == 4

-----------------------------------------------------------------------------
(* Python str operations, on sequences of characters *)

\* s[i:i+len(lit)] == lit
IsPrefixAt(lit, s, i) ==
    /\ i >= 1
    /\ i + Len(lit) - 1 <= Len(s)
    /\ \A k \in 1..Len(lit) : s[i + k - 1] = lit[k]

\* lit in s   (lit non-empty)
Contains(lit, s) == \E i \in 1..Len(s) : IsPrefixAt(lit, s, i)

RECURSIVE ReplaceFrom(_, _, _, _)
ReplaceFrom(s, old, new, i) ==
    IF i > Len(s) THEN <<>>
    ELSE IF IsPrefixAt(old, s, i)
         THEN new \o ReplaceFrom(s, old, new, i + Len(old))
         ELSE <<s[i]>> \o ReplaceFrom(s, old, new, i + 1)

\* s.replace(old, new): every non-overlapping occurrence, left to right
StrReplace(s, old, new) == ReplaceFrom(s, old, new, 1)

RECURSIVE LStripFrom(_, _, _)
LStripFrom(s, chars, i) ==
    IF i <= Len(s) /\ s[i] \in chars THEN LStripFrom(s, chars, i + 1) ELSE i

RECURSIVE RStripFrom(_, _, _)
RStripFrom(s, chars, j) ==
    IF j >= 1 /\ s[j] \in chars THEN RStripFrom(s, chars, j - 1) ELSE j

\* s.strip(chars)
StrStripChars(s, chars) ==
    LET i == LStripFrom(s, chars, 1)
        j == RStripFrom(s, chars, Len(s))
    IN  IF i > j THEN <<>> ELSE SubSeq(s, i, j)

Whitespace == {" ", "\n", "\r", "\t"}

\* s.strip()
StrStrip(s) == StrStripChars(s, Whitespace)

-----------------------------------------------------------------------------
(* Python values: a str, or something that is not a str *)

PyStr(s)  == [type |-> "str", v |-> s]
PyList(s) == [type |-> "list", v |-> s]
PyNone    == [type |-> "NoneType", v |-> <<>>]

-----------------------------------------------------------------------------
(* Character Normalizer *)

\* the replacements dict of SenatorsScraper.fix_romanian_chars, in insertion
\* order: <<old, new>>
replacements_chained ==
    << <<"ordm", "s_comma">>, <<"thorn", "ordm">>,
       <<"THORN", "T_comma">>, <<"ordf", "S_comma">> >>

replacements ==
    << <<"ordm", "s_comma">>, <<"thorn", "t_comma">>,
       <<"THORN", "T_comma">>, <<"ordf", "S_comma">> >>

\* the replacements dict of extract-senators.py
replacements_basic ==
    << <<"ordm", "s_comma">>, <<"thorn", "t_comma">>,
       <<"THORN", "T_comma">>, <<"ordf", "S_comma">> >>

\* for old, new in replacements.items(): text = text.replace(old, new)
RECURSIVE ReplaceLoop(_, _, _)
ReplaceLoop(text, table, k) ==
    IF k > Len(table) THEN text
    ELSE ReplaceLoop(StrReplace(text, <<table[k][1]>>, <<table[k][2]>>),
                     table, k + 1)

\* SenatorsScraper.fix_romanian_chars
fix_romanian_chars(text) ==
    IF text.type # "str" THEN text
    ELSE PyStr(ReplaceLoop(text.v, replacements, 1))

\* extract-senators.py fix_romanian_chars
fix_romanian_chars_basic(text) ==
    IF text.type # "str" THEN text
    ELSE PyStr(ReplaceLoop(text.v, replacements_basic, 1))

Normalize(variant, text) ==
    IF variant = "scraper" THEN fix_romanian_chars(text)
    ELSE fix_romanian_chars_basic(text)

-----------------------------------------------------------------------------
(* Regular expressions of the listing parsers *)

\* a character class: \d is Digits, [^&] is every character but "&"
Digits == [negated |-> FALSE, chars |-> {"0", "1", "2", "3", "4", "5", "6", "7", "8", "9"}]

NotAmp == [negated |-> TRUE, chars |-> {"&"}]

InClass(cls, c) == IF cls.negated THEN c \notin cls.chars ELSE c \in cls.chars

Min(S) == CHOOSE x \in S : \A y \in S : x <= y

\* re.search(lit + '(' + cls + '+)', s): the leftmost place where lit is
\* followed by at least one character of the class; group(1) is the longest
\* run of class characters there.  PyNone when nothing matches.
ReSearchGroup1(lit, cls, s) ==
    LET P == {i \in 1..Len(s) :
                 /\ IsPrefixAt(lit, s, i)
                 /\ i + Len(lit) <= Len(s)
                 /\ InClass(cls, s[i + Len(lit)])}
    IN  IF P = {} THEN PyNone
        ELSE LET st == Min(P) + Len(lit)
                 e  == CHOOSE j \in st..Len(s) :
                          /\ \A k \in st..j : InClass(cls, s[k])
                          /\ (j = Len(s) \/ ~InClass(cls, s[j + 1]))
             IN  PyStr(SubSeq(s, st, e))

IDM == <<"i","d","m","=">>

PARLID == <<"P","a","r","l","a","m","e","n","t","a","r","I","D","=">>

\* re.search(r'idm=(\d+)', href)
SearchIdm(href) == ReSearchGroup1(IDM, Digits, href)

\* re.search(r'ParlamentarID=([^&]+)', href)
SearchParlamentarID(href) == ReSearchGroup1(PARLID, NotAmp, href)

-----------------------------------------------------------------------------
(* Markup, as BeautifulSoup presents it to the parsers *)

\* an <a> element: href is PyNone when the attribute is absent
Anchor(href, text) == [tag |-> "a", href |-> href, text |-> text]

\* find('a') found nothing
NoLink == [tag |-> "none", href |-> PyNone, text |-> <<>>]

\* link.get('href', '')
HrefGet(link) == IF link.href.type = "str" THEN link.href.v ELSE <<>>

\* a <tr>: the number of its <td> cells, the first anchor of the second
\* cell, the text of the third and of the fourth cell
Row(ncells, link, constituency, group) ==
    [ncells |-> ncells, link |-> link,
     constituency |-> constituency, group |-> group]

\* a <div class="new-card-without-pics">: its first anchor and get_text()
Card(link, text) == [link |-> link, text |-> text]

\* the value of a record's local_file key when the key is absent
NoLocalFile == PyNone

-----------------------------------------------------------------------------
(* Lower chamber listing parser *)

DeputyUrlTemplate ==
    <<"h","t","t","p","s",":","/","/","c","d","e","p",".","r","o","/",
      "p","l","s","/","p","a","r","l","a","m","/","s","t","r","u","c",
      "t","u","r","a","2","0","1","5",".","m","p","?","i","d","m","=">>

\* f"https://cdep.ro/pls/parlam/structura2015.mp?idm={deputy_id}"
DeputyProfileUrl_id(deputy_id) ==
    SubSeq(DeputyUrlTemplate, 1, Len(DeputyUrlTemplate) - 2) \o <<"=">>
        \o deputy_id

DeputyProfileUrl(deputy_id) == DeputyUrlTemplate \o deputy_id

\* the test that picks the deputies table: more than one row, and the first
\* data row has at least 4 cells and a link with 'idm=' in its second cell
IsDeputiesTable(table) ==
    /\ Len(table) > 1
    /\ table[2].ncells >= 4
    /\ table[2].link.tag = "a"
    /\ Contains(IDM, HrefGet(table[2].link))

\* link['href'] raises KeyError: the anchor has no href attribute
RowRaises(row) ==
    /\ row.ncells >= 4
    /\ row.link.tag = "a"
    /\ row.link.href.type # "str"

\* the row yields a deputy_info
RowQualifies(row) ==
    /\ row.ncells >= 4
    /\ row.link.tag = "a"
    /\ row.link.href.type = "str"
    /\ SearchIdm(row.link.href.v).type = "str"

deputy_info(row) ==
    LET deputy_id == SearchIdm(row.link.href.v).v
    IN  [name  |-> StrStrip(row.link.text),
         url   |-> DeputyProfileUrl(deputy_id),
         id    |-> deputy_id,
         group |-> StrStrip(row.group),
         local_file |-> NoLocalFile]

RECURSIVE DeputyRows(_, _)
DeputyRows(rows, k) ==
    IF k > Len(rows) THEN <<>>
    ELSE (IF RowQualifies(rows[k]) THEN <<deputy_info(rows[k])>> ELSE <<>>)
            \o DeputyRows(rows, k + 1)

\* the rows of the target table after the header row
DataRows(table) == SubSeq(table, 2, Len(table))

\* ParliamentScraper.extract_deputies_from_file: doc is the sequence of the
\* document's tables.  An exception anywhere returns [].
extract_deputies_from_file(doc) ==
    LET T == {t \in 1..Len(doc) : IsDeputiesTable(doc[t])}
    IN  IF T = {} THEN <<>>
        ELSE LET rows == DataRows(doc[Min(T)])
             IN  IF \E k \in 1..Len(rows) : RowRaises(rows[k]) THEN <<>>
                 ELSE DeputyRows(rows, 1)

RECURSIVE Flatten(_)
Flatten(seqs) == IF seqs = <<>> THEN <<>> ELSE Head(seqs) \o Flatten(Tail(seqs))

\* extract-deputies.py: the row passes `link and 'idm=' in link.get(...)`
BasicRowPasses(row) ==
    /\ row.ncells >= 4
    /\ row.link.tag = "a"
    /\ Contains(IDM, HrefGet(row.link))

deputy_basic(row) ==
    LET deputy_id == SearchIdm(row.link.href.v).v
    IN  [id    |-> deputy_id,
         name  |-> StrStrip(row.link.text),
         constituency |-> StrStrip(row.constituency),
         group |-> StrStrip(row.group),
         url   |-> DeputyProfileUrl(deputy_id)]

RECURSIVE DeputyBasicRows(_, _)
DeputyBasicRows(rows, k) ==
    IF k > Len(rows) THEN <<>>
    ELSE (IF BasicRowPasses(rows[k]) THEN <<deputy_basic(rows[k])>> ELSE <<>>)
            \o DeputyBasicRows(rows, k + 1)

\* extract-deputies.py extract_deputies: every <tr> of the document but the
\* first; re.search(...).group(1) on a None match is not caught and ends the
\* script before anything is written.
extract_deputies(doc) ==
    LET all  == Flatten(doc)
        rows == SubSeq(all, 2, Len(all))
    IN  IF \E k \in 1..Len(rows) :
              BasicRowPasses(rows[k]) /\ SearchIdm(HrefGet(rows[k].link)).type # "str"
        THEN [crashed |-> TRUE, deputies |-> <<>>]
        ELSE [crashed |-> FALSE, deputies |-> DeputyBasicRows(rows, 1)]

-----------------------------------------------------------------------------
(* Upper chamber listing parser *)

SenateBaseUrl ==
    <<"h","t","t","p","s",":","/","/","w","w","w",".","s","e","n","a",
      "t",".","r","o">>

FisaSenatorPath ==
    <<"/","F","i","s","a","S","e","n","a","t","o","r",".","a","s","p",
      "x","?","P","a","r","l","a","m","e","n","t","a","r","I","D","=">>

\* f"{self.base_url}/FisaSenator.aspx?ParlamentarID={senator_id}"
SenatorProfileUrl(senator_id) == SenateBaseUrl \o FisaSenatorPath \o senator_id

\* extract-senators.py:
\* f"https://www.senat.ro/FisaSenator.aspx?ParlamentarID={senator_id}"
SenatorProfileUrlBasic(senator_id) ==
    <<"h","t","t","p","s",":","/","/","w","w","w",".","s","e","n","a",
      "t",".","r","o","/","F","i","s","a","S","e","n","a","t","o","r",
      ".","a","s","p","x","?","P","a","r","l","a","m","e","n","t","a",
      "r","I","D","=">> \o senator_id

LabelBirth == <<"D","a","t","a"," ","n","a","s","t","e","r","i","i",":">>

\* "Circumscripţia electorală" as the source file writes it
LabelConstituency ==
    <<"C","i","r","c","u","m","s","c","r","i","p","t_cedilla","i","a",
      " ","e","l","e","c","t","o","r","a","l","a_breve">>

LabelGroup ==
    <<"G","r","u","p","u","l"," ","p","a","r","l","a","m","e","n","t",
      "a","r">>

RECURSIVE SplitFrom(_, _, _, _)
SplitFrom(s, sep, i, cur) ==
    IF i > Len(s) THEN <<cur>>
    ELSE IF s[i] = sep THEN <<cur>> \o SplitFrom(s, sep, i + 1, <<>>)
         ELSE SplitFrom(s, sep, i + 1, Append(cur, s[i]))

\* s.split(sep) for a one-character separator
StrSplit(s, sep) == SplitFrom(s, sep, 1, <<>>)

RECURSIVE StripNonEmpty(_, _)
StripNonEmpty(lines, k) ==
    IF k > Len(lines) THEN <<>>
    ELSE (IF StrStrip(lines[k]) # <<>> THEN <<StrStrip(lines[k])>> ELSE <<>>)
            \o StripNonEmpty(lines, k + 1)

\* [line.strip() for line in card.get_text().split('\n') if line.strip()]
text_lines(card) == StripNonEmpty(StrSplit(card.text, "\n"), 1)

\* the for/if/elif scan over text_lines: a later matching line overwrites
RECURSIVE ScanLines(_, _, _)
ScanLines(lines, k, acc) ==
    IF k > Len(lines) THEN acc
    ELSE LET line == lines[k]
             nxt  == IF Contains(LabelBirth, line)
                       THEN [acc EXCEPT !.birth_date =
                                StrStrip(StrReplace(line, LabelBirth, <<>>))]
                     ELSE IF Contains(LabelConstituency, line)
                       THEN [acc EXCEPT !.constituency = StrStrip(line)]
                     ELSE IF Contains(LabelGroup, line)
                       THEN [acc EXCEPT !.group = StrStrip(line)]
                     ELSE acc
         IN  ScanLines(lines, k + 1, nxt)

CardFields(card) ==
    ScanLines(text_lines(card), 1,
              [birth_date |-> <<>>, constituency |-> <<>>, group |-> <<>>])

\* the card yields a senator_info: it has an anchor, and the id pattern
\* matches its href (a None match raises inside the card's try and the card
\* is skipped)
CardQualifies(card) ==
    /\ card.link.tag = "a"
    /\ SearchParlamentarID(HrefGet(card.link)).type = "str"

senator_info(card) ==
    LET senator_id == SearchParlamentarID(HrefGet(card.link)).v
        f == CardFields(card)
    IN  [id   |-> senator_id,
         name |-> fix_romanian_chars(PyStr(StrStrip(card.link.text))).v,
         birth_date   |-> f.birth_date,
         constituency |-> fix_romanian_chars(PyStr(f.constituency)).v,
         group |-> fix_romanian_chars(PyStr(f.group)).v,
         url   |-> SenatorProfileUrl(senator_id),
         local_file |-> NoLocalFile]

\* the records collected newest first
RECURSIVE SenatorCardsNewestFirst(_, _)
SenatorCardsNewestFirst(cards, k) ==
    IF k > Len(cards) THEN <<>>
    ELSE SenatorCardsNewestFirst(cards, k + 1)
            \o (IF CardQualifies(cards[k]) THEN <<senator_info(cards[k])>>
                ELSE <<>>)

\* SenatorsScraper.extract_senators_from_file: doc is the sequence of cards
RECURSIVE SenatorCards(_, _)
SenatorCards(cards, k) ==
    IF k > Len(cards) THEN <<>>
    ELSE (IF CardQualifies(cards[k]) THEN <<senator_info(cards[k])>> ELSE <<>>)
            \o SenatorCards(cards, k + 1)

extract_senators_from_file(doc) == SenatorCards(doc, 1)

senator_basic(card) ==
    LET senator_id == SearchParlamentarID(HrefGet(card.link)).v
        f == CardFields(card)
    IN  [id   |-> senator_id,
         name |-> fix_romanian_chars_basic(PyStr(StrStrip(card.link.text))).v,
         birth_date   |-> f.birth_date,
         constituency |-> fix_romanian_chars_basic(PyStr(f.constituency)).v,
         group |-> fix_romanian_chars_basic(PyStr(f.group)).v,
         url   |-> SenatorProfileUrlBasic(senator_id)]

RECURSIVE SenatorBasicCards(_, _)
SenatorBasicCards(cards, k) ==
    IF k > Len(cards) THEN <<>>
    ELSE (IF CardQualifies(cards[k]) THEN <<senator_basic(cards[k])>> ELSE <<>>)
            \o SenatorBasicCards(cards, k + 1)

\* extract-senators.py extract_senators
extract_senators(doc) == SenatorBasicCards(doc, 1)

-----------------------------------------------------------------------------
(* Detail parsers *)

CdepBaseUrl ==
    <<"h","t","t","p",":","/","/","w","w","w",".","c","d","e","p",".",
      "r","o">>

HttpScheme == <<"h","t","t","p",":","/","/">>

HttpsScheme == <<"h","t","t","p","s",":","/","/">>

\* urllib.parse.urljoin(base, href) for a base without a path, and an href
\* that is empty, absolute, rooted, a query or fragment, or a plain relative
\* path (no dot segments, no leading "//")
urljoin(base, href) ==
    IF href = <<>> THEN base
    ELSE IF IsPrefixAt(HttpScheme, href, 1) \/ IsPrefixAt(HttpsScheme, href, 1)
         THEN href
    ELSE IF href[1] \in {"/", "?", "#"} THEN base \o href
    ELSE base \o <<"/">> \o href

\* child nodes of a <p>, and elements of a page
ANode(text, href) == [kind |-> "a", text |-> text, href |-> href]
TextNode(text)    == [kind |-> "text", text |-> text, href |-> PyNone]
TagNode(name)     == [kind |-> name, text |-> <<>>, href |-> PyNone]

MarkerLower ==
    <<"C","o","m","i","s","i","i"," ","p","e","r","m","a","n","e","n",
      "t","e">>

LabelUpper ==
    <<"C","o","m","i","s","i","i"," ","p","e","r","m","a","n","e","n",
      "t","e",":">>

\* a <div class="boxDep">: the text of its first <h3> (PyNone when it has
\* none) and the child nodes of its first <p> (hasP FALSE when it has none)
BoxDep(h3, hasP, contents) == [h3 |-> h3, hasP |-> hasP, contents |-> contents]

\* the characters element.strip(' -\n\r\t') removes
RoleStrip == {" ", "-", "\n", "\r", "\t"}

NoRole == PyNone

\* the loop over p_tag.contents of parse_deputy_committees
RECURSIVE DeputyCommitteeLoop(_, _, _)
DeputyCommitteeLoop(contents, k, committees) ==
    IF k > Len(contents) THEN committees
    ELSE LET element == contents[k]
             text == StrStripChars(element.text, RoleStrip)
             n == Len(committees)
         IN  DeputyCommitteeLoop(contents, k + 1,
               IF element.kind = "a"
               THEN Append(committees,
                           [name |-> StrStrip(element.text),
                            url  |-> urljoin(CdepBaseUrl, element.href.v),
                            role |-> NoRole])
               ELSE IF element.kind = "text" /\ text # <<>> /\ n > 0
               THEN [committees EXCEPT ![n].role = PyStr(text)]
               ELSE committees)

\* ParliamentScraper.parse_deputy_committees on the content of the file;
\* page is NoFile when the file cannot be opened.  Every exception (no file,
\* an anchor without href) returns [].
NoFile == [boxes |-> <<>>, exists |-> FALSE]

LowerPage(boxes) == [boxes |-> boxes, exists |-> TRUE]

parse_deputy_committees(page) ==
    IF ~page.exists THEN <<>>
    ELSE LET B == {b \in 1..Len(page.boxes) :
                     /\ page.boxes[b].h3.type = "str"
                     /\ Contains(MarkerLower, page.boxes[b].h3.v)}
         IN  IF B = {} THEN <<>>
             ELSE LET div == page.boxes[Min(B)]
                  IN  IF ~div.hasP THEN <<>>
                      ELSE IF \E k \in 1..Len(div.contents) :
                                 /\ div.contents[k].kind = "a"
                                 /\ div.contents[k].href.type # "str"
                           THEN <<>>
                           ELSE DeputyCommitteeLoop(div.contents, 1, <<>>)

\* a senator page: its elements in document order, each a tag name, its
\* string and its href
UpperPage(elements) == [elements |-> elements, exists |-> TRUE]

NoFileUpper == [elements |-> <<>>, exists |-> FALSE]

\* the while loop of parse_senator_committees from element k on
RECURSIVE SenatorCommitteeLoop(_, _, _)
SenatorCommitteeLoop(elements, k, committees) ==
    IF k > Len(elements) \/ elements[k].kind = "h5" THEN committees
    ELSE SenatorCommitteeLoop(elements, k + 1,
           IF elements[k].kind = "a"
           THEN Append(committees,
                  [name |-> fix_romanian_chars(PyStr(StrStrip(elements[k].text))).v,
                   url  |-> urljoin(SenateBaseUrl, elements[k].href.v)])
           ELSE committees)

\* the index after the span walked: the next h5, or past the end
RECURSIVE SpanEnd(_, _)
SpanEnd(elements, k) ==
    IF k > Len(elements) \/ elements[k].kind = "h5" THEN k
    ELSE SpanEnd(elements, k + 1)

\* SenatorsScraper.parse_senator_committees
parse_senator_committees(page) ==
    IF ~page.exists THEN <<>>
    ELSE LET H == {h \in 1..Len(page.elements) :
                     /\ page.elements[h].kind = "h5"
                     /\ page.elements[h].text = LabelUpper}
         IN  IF H = {} THEN <<>>
             ELSE LET h5 == Min(H)
                      e  == SpanEnd(page.elements, h5 + 1)
                  IN  IF \E k \in (h5 + 1)..(e - 1) :
                            /\ page.elements[k].kind = "a"
                            /\ page.elements[k].href.type # "str"
                      THEN <<>>
                      ELSE SenatorCommitteeLoop(page.elements, h5 + 1, <<>>)

-----------------------------------------------------------------------------
(* Runs of the Character Normalizer on bounded inputs *)

NormAlphabet ==
    {"ordm", "thorn", "THORN", "ordf",
     "s_comma", "t_comma", "T_comma", "S_comma", "a"}

SeqsUpTo(S, n) == UNION {[1..k -> S] : k \in 0..n}

NormInputs ==
    {PyStr(s) : s \in SeqsUpTo(NormAlphabet, MaxLen)}
        \cup {PyNone, PyList(<<"ordm">>), PyList(<<>>)}

NormIdle ==
    /\ nvariant = "none"
    /\ ntext = PyNone
    /\ nonce = PyNone
    /\ ntwice = PyNone
    /\ npc = "idle"

NormInit ==
    /\ nvariant \in {"scraper", "extract"}
    /\ ntext \in NormInputs
    /\ nonce = PyNone
    /\ ntwice = PyNone
    /\ npc = "input"

NormalizeOnce ==
    /\ npc = "input"
    /\ nonce' = Normalize(nvariant, ntext)
    /\ npc' = "once"
    /\ UNCHANGED <<nvariant, ntext, ntwice>>
    /\ UNCHANGED <<uvars, pvars, tvars>>

NormalizeTwice ==
    /\ npc = "once"
    /\ ntwice' = Normalize(nvariant, nonce)
    /\ npc' = "twice"
    /\ UNCHANGED <<nvariant, ntext, nonce>>
    /\ UNCHANGED <<uvars, pvars, tvars>>

NormNext == NormalizeOnce \/ NormalizeTwice

-----------------------------------------------------------------------------
(* Runs of the listing parsers on one item whose href is drawn from a      *)
(* bounded set, followed by the re-extraction of the id from the url       *)

\* the template up to the query string
CdepPath == SubSeq(DeputyUrlTemplate, 1, Len(DeputyUrlTemplate) - Len(IDM))

Chunks ==
    {IDM, PARLID, CdepPath, <<"1">>, <<"2", "0">>, <<"&">>, <<"x">>,
     <<"a", "-", "b">>}

Hrefs == {Flatten(cs) : cs \in SeqsUpTo(Chunks, MaxChunks)}

HrefAttrs == {PyStr(h) : h \in Hrefs} \cup {PyNone}

NameAB == <<" ", "A", " ", "B", "\n">>

HeaderRow == Row(4, NoLink, <<>>, <<>>)

CardTextA ==
    <<"\n"," ","A"," ","ordm","\n",
      "D","a","t","a"," ","n","a","s","t","e","r","i","i",":"," ","1","\n",
      "G","r","u","p","u","l"," ","p","a","r","l","a","m","e","n","t",
      "a","r"," ","thorn","\n">>

UrlSources ==
    {"deputies_scraper", "deputies_basic", "senators_scraper", "senators_basic"}

UrlDoc(source, href) ==
    IF source \in {"deputies_scraper", "deputies_basic"}
    THEN << <<HeaderRow, Row(4, Anchor(href, NameAB), <<"C">>, <<"G">>)>> >>
    ELSE << Card(Anchor(href, NameAB), CardTextA) >>

UrlIdle ==
    /\ usource = "none"
    /\ udoc = <<>>
    /\ urecs = <<>>
    /\ uids = <<>>
    /\ upc = "idle"

UrlInit ==
    /\ usource \in UrlSources
    /\ \E href \in HrefAttrs : udoc = UrlDoc(usource, href)
    /\ urecs = <<>>
    /\ uids = <<>>
    /\ upc = "input"

\* the listing parser of the source is run on the document
UrlParse ==
    /\ upc = "input"
    /\ urecs' = CASE usource = "deputies_scraper" -> extract_deputies_from_file(udoc)
                  [] usource = "deputies_basic"   -> extract_deputies(udoc).deputies
                  [] usource = "senators_scraper" -> extract_senators_from_file(udoc)
                  [] usource = "senators_basic"   -> extract_senators(udoc)
    /\ upc' = "parsed"
    /\ UNCHANGED <<usource, udoc, uids>>
    /\ UNCHANGED <<nvars, pvars, tvars>>

\* the id is extracted from each record's url with the parser's own pattern
UrlReExtract ==
    /\ upc = "parsed"
    /\ uids' = [i \in DOMAIN urecs |->
                  IF usource \in {"deputies_scraper", "deputies_basic"}
                  THEN SearchIdm(urecs[i].url)
                  ELSE SearchParlamentarID(urecs[i].url)]
    /\ upc' = "done"
    /\ UNCHANGED <<usource, udoc, urecs>>
    /\ UNCHANGED <<nvars, pvars, tvars>>

UrlNext == UrlParse \/ UrlReExtract

-----------------------------------------------------------------------------
(* The pipeline: process_all of either scraper *)

\* f"deputy_{deputy['id']}_{deputy['name'].replace(' ', '_')}.html"
DeputyFilename(deputy) ==
    <<"d","e","p","u","t","y","_">> \o deputy.id \o <<"_">>
        \o StrReplace(deputy.name, <<" ">>, <<"_">>)
        \o <<".","h","t","m","l">>

\* f"senator_{senator['id']}.html"
SenatorFilename(senator) ==
    <<"s","e","n","a","t","o","r","_">> \o senator.id
        \o <<".","h","t","m","l">>

HeaderLower ==
    <<"Deputy Name", "Deputy URL", "Deputy ID", "Parliamentary Group",
      "Committee Name", "Committee URL", "Role">>

HeaderUpper ==
    <<"Senator Name", "Senator URL", "Senator ID", "Birth Date",
      "Constituency", "Parliamentary Group", "Committee Name",
      "Committee URL">>

\* the csv file before open(..., 'w')
NoCsv == [written |-> FALSE, header |-> <<>>, rows |-> <<>>]

Event(ev, idx, ok) == [ev |-> ev, idx |-> idx, ok |-> ok]

\* the writerow calls of ParliamentScraper.process_all for one deputy
DeputyRowsFirstOnly(deputy, committees) ==
    IF committees = <<>>
    THEN << <<deputy.name, deputy.url, deputy.id, <<>>, <<>>, <<>> >> >>
    ELSE << <<deputy.name, deputy.url, deputy.id, deputy.group,
              committees[1].name, committees[1].url,
              IF committees[1].role = NoRole THEN <<>>
              ELSE committees[1].role.v>> >>

DeputyRowsFor(deputy, committees) ==
    IF committees = <<>>
    THEN << <<deputy.name, deputy.url, deputy.id, <<>>, <<>>, <<>> >> >>
    ELSE [k \in 1..Len(committees) |->
            <<deputy.name, deputy.url, deputy.id, deputy.group,
              committees[k].name, committees[k].url,
              IF committees[k].role = NoRole THEN <<>>
              ELSE committees[k].role.v>>]

\* the writerow calls of SenatorsScraper.process_all for one senator
SenatorRowsFor(senator, committees) ==
    IF committees = <<>>
    THEN << <<senator.name, senator.url, senator.id, senator.birth_date,
              senator.constituency, senator.group, <<>>, <<>> >> >>
    ELSE [k \in 1..Len(committees) |->
            <<senator.name, senator.url, senator.id, senator.birth_date,
              senator.constituency, senator.group,
              committees[k].name, committees[k].url>>]

\* process_all up to the download phase: the listing is parsed; with no
\* record the run prints "No ... found. Exiting." and returns
ExtractListing_NoEarlyReturn ==
    /\ pc = "start"
    /\ records' = IF chamber = "lower"
                  THEN extract_deputies_from_file(listing)
                  ELSE extract_senators_from_file(listing)
    /\ pc' = "download"
    /\ pos' = 1
    /\ UNCHANGED <<chamber, use_cache, listing, files, events, csv, emitted>>
    /\ UNCHANGED <<nvars, uvars, tvars>>

ExtractListing ==
    /\ pc = "start"
    /\ records' = IF chamber = "lower"
                  THEN extract_deputies_from_file(listing)
                  ELSE extract_senators_from_file(listing)
    /\ pc' = IF records' = <<>> THEN "returned" ELSE "download"
    /\ pos' = 1
    /\ UNCHANGED <<chamber, use_cache, listing, files, events, csv, emitted>>
    /\ UNCHANGED <<nvars, uvars, tvars>>

\* one turn of the cache loop of ParliamentScraper.download_deputy_pages
DownloadDeputyCached ==
    /\ pc = "download"
    /\ chamber = "lower"
    /\ use_cache
    /\ pos <= Len(records)
    /\ LET filepath == DeputyFilename(records[pos])
       IN  IF files[filepath].exists
           THEN /\ records' = [records EXCEPT ![pos].local_file = PyStr(filepath)]
                /\ events' = Append(events, Event("cached", pos, TRUE))
           ELSE /\ records' = records
                /\ events' = Append(events, Event("warning", pos, FALSE))
    /\ pos' = pos + 1
    /\ UNCHANGED <<chamber, use_cache, listing, files, pc, csv, emitted>>
    /\ UNCHANGED <<nvars, uvars, tvars>>

\* the pages a live fetch of a deputy's profile can bring
K1 == <<"K", "1">>

K2 == <<"K", "thorn">>

RoleText == <<" ", "-", " ", "r", "\n">>

PL_none == LowerPage(<< BoxDep(PyStr(<<"A","l","t","e">>), TRUE,
                               <<ANode(K1, PyStr(<<"/","c","0">>))>>) >>)

PL_one == LowerPage(<< BoxDep(PyStr(MarkerLower), TRUE,
                              <<ANode(<<" ">> \o K1, PyStr(<<"/","c","1">>)),
                                TextNode(RoleText)>>) >>)

PL_two == LowerPage(<< BoxDep(PyNone, TRUE, <<>>),
                       BoxDep(PyStr(MarkerLower \o <<":">>), TRUE,
                              <<TextNode(<<"x">>),
                                ANode(K1, PyStr(<<"/","c","1">>)),
                                TagNode("br"),
                                ANode(K2, PyStr(<<"c","2">>)),
                                TextNode(RoleText)>>) >>)

PL_raise == LowerPage(<< BoxDep(PyStr(MarkerLower), TRUE,
                                <<ANode(K1, PyStr(<<"/","c","1">>)),
                                  ANode(K2, PyNone)>>) >>)

PU_none == UpperPage(<< [kind |-> "h5", text |-> MarkerLower, href |-> PyNone],
                        ANode(K1, PyStr(<<"/","c","0">>)) >>)

PU_one == UpperPage(<< [kind |-> "h5", text |-> LabelUpper, href |-> PyNone],
                       TagNode("p"),
                       ANode(K2 \o <<" ">>, PyStr(<<"/","c","1">>)) >>)

PU_two == UpperPage(<< ANode(K1, PyStr(<<"/","c","0">>)),
                       [kind |-> "h5", text |-> LabelUpper, href |-> PyNone],
                       ANode(K1, PyStr(<<"/","c","1">>)),
                       TagNode("p"),
                       ANode(K2, PyStr(<<"c","2">>)),
                       [kind |-> "h5", text |-> <<"x">>, href |-> PyNone],
                       ANode(K1, PyStr(<<"/","c","3">>)) >>)

PU_raise == UpperPage(<< [kind |-> "h5", text |-> LabelUpper, href |-> PyNone],
                         ANode(K1, PyStr(<<"/","c","1">>)),
                         ANode(K2, PyNone) >>)

\* pages found in the directory when the run starts: any of them in cache
\* mode; in live mode, where every page is fetched anew, nothing or a page
\* left by an earlier run
InitPages(ch, cache) ==
    IF ch = "lower"
    THEN (IF cache THEN {NoFile, PL_none, PL_two, PL_raise} ELSE {NoFile, PL_two})
    ELSE (IF cache THEN {NoFileUpper, PU_none, PU_two, PU_raise}
          ELSE {NoFileUpper, PU_two})

\* the page a live fetch brings
FetchPages(ch) == IF ch = "lower" THEN {PL_one} ELSE {PU_one}

\* one turn of the live loop of ParliamentScraper.download_deputy_pages:
\* driver.get and the wait end well, in a TimeoutException or in another
\* exception; save_page swallows its own failure; the sleep always follows
DownloadDeputyLive_AbortOnError ==
    /\ pc = "download"
    /\ chamber = "lower"
    /\ ~use_cache
    /\ pos <= Len(records)
    /\ LET filepath == DeputyFilename(records[pos])
       IN  \E outcome \in {"ok", "timeout", "error"} :
             IF outcome = "ok"
             THEN \E page \in FetchPages("lower"), saved \in BOOLEAN :
                    /\ files' = IF saved THEN [files EXCEPT ![filepath] = page]
                                ELSE files
                    /\ records' = [records EXCEPT
                                     ![pos].local_file = PyStr(filepath)]
                    /\ events' = events \o <<Event("fetch", pos, TRUE),
                                             Event("sleep", pos, TRUE)>>
                    /\ pos' = pos + 1
             ELSE /\ files' = files
                  /\ records' = records
                  /\ events' = events \o <<Event("fetch", pos, FALSE),
                                           Event("sleep", pos, FALSE)>>
                  /\ pos' = Len(records) + 1
    /\ UNCHANGED <<chamber, use_cache, listing, pc, csv, emitted>>
    /\ UNCHANGED <<nvars, uvars, tvars>>

DownloadDeputyLive ==
    /\ pc = "download"
    /\ chamber = "lower"
    /\ ~use_cache
    /\ pos <= Len(records)
    /\ LET filepath == DeputyFilename(records[pos])
       IN  \E outcome \in {"ok", "timeout", "error"} :
             IF outcome = "ok"
             THEN \E page \in FetchPages("lower"), saved \in BOOLEAN :
                    /\ files' = IF saved THEN [files EXCEPT ![filepath] = page]
                                ELSE files
                    /\ records' = [records EXCEPT
                                     ![pos].local_file = PyStr(filepath)]
                    /\ events' = events \o <<Event("fetch", pos, TRUE),
                                             Event("sleep", pos, TRUE)>>
             ELSE /\ files' = files
                  /\ records' = records
                  /\ events' = events \o <<Event("fetch", pos, FALSE),
                                           Event("sleep", pos, FALSE)>>
    /\ pos' = pos + 1
    /\ UNCHANGED <<chamber, use_cache, listing, pc, csv, emitted>>
    /\ UNCHANGED <<nvars, uvars, tvars>>

\* one turn of the loop of SenatorsScraper.download_senator_pages: a cached
\* file is used only when use_cache is set and the file exists; otherwise the
\* page is fetched.  The sleep is the last statement of the try block.
DownloadSenator ==
    /\ pc = "download"
    /\ chamber = "upper"
    /\ pos <= Len(records)
    /\ LET filepath == SenatorFilename(records[pos])
       IN  IF use_cache /\ files[filepath].exists
           THEN /\ files' = files
                /\ records' = [records EXCEPT
                                 ![pos].local_file = PyStr(filepath)]
                /\ events' = Append(events, Event("cached", pos, TRUE))
           ELSE \E outcome \in {"ok", "error", "write_error"} :
                  CASE outcome = "ok" ->
                         \E page \in FetchPages("upper") :
                           /\ files' = [files EXCEPT ![filepath] = page]
                           /\ records' = [records EXCEPT
                                            ![pos].local_file = PyStr(filepath)]
                           /\ events' = events \o <<Event("fetch", pos, TRUE),
                                                    Event("sleep", pos, TRUE)>>
                    [] outcome = "error" ->
                         /\ files' = files
                         /\ records' = records
                         /\ events' = events \o <<Event("fetch", pos, FALSE)>>
                    [] outcome = "write_error" ->
                         /\ files' = files
                         /\ records' = records
                         /\ events' = events \o <<Event("fetch", pos, TRUE)>>
    /\ pos' = pos + 1
    /\ UNCHANGED <<chamber, use_cache, listing, pc, csv, emitted>>
    /\ UNCHANGED <<nvars, uvars, tvars>>

\* the download loop is over: the csv file is opened and the header written
WriteHeader ==
    /\ pc = "download"
    /\ pos > Len(records)
    /\ csv' = [written |-> TRUE,
               header  |-> IF chamber = "lower" THEN HeaderLower ELSE HeaderUpper,
               rows    |-> <<>>]
    /\ pc' = "write"
    /\ pos' = 1
    /\ UNCHANGED <<chamber, use_cache, listing, files, records, events, emitted>>
    /\ UNCHANGED <<nvars, uvars, tvars>>

\* one turn of the writing loop of ParliamentScraper.process_all
ProcessDeputy ==
    /\ pc = "write"
    /\ chamber = "lower"
    /\ pos <= Len(records)
    /\ IF records[pos].local_file = NoLocalFile
       THEN UNCHANGED <<csv, emitted, events>>
       ELSE LET committees ==
                    parse_deputy_committees(files[records[pos].local_file.v])
                rows == DeputyRowsFor(records[pos], committees)
            IN  /\ csv' = [csv EXCEPT !.rows = csv.rows \o rows]
                /\ emitted' = emitted \o [k \in 1..Len(rows) |-> pos]
                /\ events' = Append(events, Event("parse", pos, TRUE))
    /\ pos' = pos + 1
    /\ UNCHANGED <<chamber, use_cache, listing, files, records, pc>>
    /\ UNCHANGED <<nvars, uvars, tvars>>

\* one turn of the writing loop of SenatorsScraper.process_all
ProcessSenator ==
    /\ pc = "write"
    /\ chamber = "upper"
    /\ pos <= Len(records)
    /\ IF records[pos].local_file = NoLocalFile
       THEN UNCHANGED <<csv, emitted, events>>
       ELSE LET committees ==
                    parse_senator_committees(files[records[pos].local_file.v])
                rows == SenatorRowsFor(records[pos], committees)
            IN  /\ csv' = [csv EXCEPT !.rows = csv.rows \o rows]
                /\ emitted' = emitted \o [k \in 1..Len(rows) |-> pos]
                /\ events' = Append(events, Event("parse", pos, TRUE))
    /\ pos' = pos + 1
    /\ UNCHANGED <<chamber, use_cache, listing, files, records, pc>>
    /\ UNCHANGED <<nvars, uvars, tvars>>

\* the writing loop is over: the file is closed, "Process completed!"
Finish ==
    /\ pc = "write"
    /\ pos > Len(records)
    /\ pc' = "completed"
    /\ UNCHANGED <<chamber, use_cache, listing, files, records, pos, events,
                   csv, emitted>>
    /\ UNCHANGED <<nvars, uvars, tvars>>

Next ==
    \/ ExtractListing
    \/ DownloadDeputyCached
    \/ DownloadDeputyLive
    \/ DownloadSenator
    \/ WriteHeader
    \/ ProcessDeputy
    \/ ProcessSenator
    \/ Finish

-----------------------------------------------------------------------------
(* The listings and directories a run starts from *)

\* data rows of the deputies table
RowA == Row(4, Anchor(PyStr(IDM \o <<"7">>), NameAB), <<"C">>, <<" ", "G">>)

RowB == Row(5, Anchor(PyStr(CdepPath \o IDM \o <<"4", "2", "&", "x">>),
                      <<"C">>), <<>>, <<"H", "\n">>)

RowNoLink == Row(4, NoLink, <<"C">>, <<"G">>)

RowNoHref == Row(4, Anchor(PyNone, <<"N">>), <<"C">>, <<"G">>)

RowNoDigits == Row(4, Anchor(PyStr(IDM \o <<"x">>), <<"N">>), <<"C">>, <<"G">>)

RowThreeCells == Row(3, Anchor(PyStr(IDM \o <<"9">>), <<"N">>), <<"C">>, <<>>)

LowerRowKinds ==
    {RowA, RowB, RowNoLink, RowNoHref, RowNoDigits, RowThreeCells}

\* a table the search for the deputies table passes over
DecoyTable == <<HeaderRow, RowNoLink, RowA>>

LowerListings ==
    {decoy \o << <<HeaderRow>> \o rows >> :
        decoy \in {<<>>, <<DecoyTable>>},
        rows \in SeqsUpTo(LowerRowKinds, MaxRows)}

CardTextB ==
    <<"C","\n",
      "G","r","u","p","u","l"," ","p","a","r","l","a","m","e","n","t",
      "a","r"," ","X">>

CardA == Card(Anchor(PyStr(PARLID \o <<"a", "-", "b", "&", "x">>),
                     <<" ", "A", " ", "ordm">>), CardTextA)

CardB == Card(Anchor(PyStr(<<"?">> \o PARLID \o <<"7">>), <<"C">>), CardTextB)

CardNoLink == Card(NoLink, CardTextB)

CardNoHref == Card(Anchor(PyNone, <<"N">>), CardTextB)

CardNoMatch == Card(Anchor(PyStr(PARLID \o <<"&", "x">>), <<"N">>), CardTextB)

UpperCardKinds == {CardA, CardB, CardNoLink, CardNoHref, CardNoMatch}

UpperListings == SeqsUpTo(UpperCardKinds, MaxRows)

Listings(ch) == IF ch = "lower" THEN LowerListings ELSE UpperListings

Range(f) == {f[x] : x \in DOMAIN f}

\* the names of the detail files the run can touch
Filenames(ch, doc) ==
    IF ch = "lower"
    THEN {DeputyFilename(d) : d \in Range(extract_deputies_from_file(doc))}
    ELSE {SenatorFilename(d) : d \in Range(extract_senators_from_file(doc))}

PipeIdle ==
    /\ chamber = "none"
    /\ use_cache = FALSE
    /\ listing = <<>>
    /\ files = <<>>
    /\ records = <<>>
    /\ pc = "idle"
    /\ pos = 1
    /\ events = <<>>
    /\ csv = NoCsv
    /\ emitted = <<>>

PipeInit ==
    /\ chamber \in {"lower", "upper"}
    /\ use_cache \in BOOLEAN
    /\ listing \in Listings(chamber)
    /\ files \in [Filenames(chamber, listing) -> InitPages(chamber, use_cache)]
    /\ records = <<>>
    /\ pc = "start"
    /\ pos = 1
    /\ events = <<>>
    /\ csv = NoCsv
    /\ emitted = <<>>

-----------------------------------------------------------------------------
(* One call of a detail parser on bounded markup *)

ParserIdle ==
    /\ tparser = "none"
    /\ tinput = <<>>
    /\ toutput = <<>>
    /\ tpc = "idle"

\* child nodes of the committees paragraph
A1 == ANode(<<" ">> \o K1, PyStr(<<"/","c","1">>))

A2 == ANode(K2, PyStr(<<"c","2">>))

ANoHref == ANode(K1, PyNone)

BlankText == TextNode(<<" ", "-", "\n">>)

DeputyNodeKinds ==
    {A1, A2, ANoHref, TextNode(RoleText), TextNode(<<"x">>), BlankText,
     TagNode("br")}

\* deputy pages: the committees box with every paragraph within the bound,
\* and the pages on which the section is not found
DeputyPages ==
    {LowerPage(<<BoxDep(PyStr(MarkerLower), TRUE, contents)>>) :
        contents \in SeqsUpTo(DeputyNodeKinds, MaxNodes)}
      \cup {NoFile, PL_none, PL_two,
            LowerPage(<<BoxDep(PyStr(MarkerLower), FALSE, <<>>)>>)}

DeputyPageInit ==
    /\ tparser = "parse_deputy_committees"
    /\ tinput \in DeputyPages
    /\ toutput = <<>>
    /\ tpc = "input"

ParseDeputyPage ==
    /\ tpc = "input"
    /\ tparser = "parse_deputy_committees"
    /\ toutput' = parse_deputy_committees(tinput)
    /\ tpc' = "returned"
    /\ UNCHANGED <<tparser, tinput>>
    /\ UNCHANGED <<nvars, uvars, pvars>>

\* elements of a senator page
H5(text) == [kind |-> "h5", text |-> text, href |-> PyNone]

SenatorElementKinds ==
    {H5(LabelUpper), H5(MarkerLower), A1, A2, ANoHref, TagNode("p")}

SenatorPages ==
    {UpperPage(elements) : elements \in SeqsUpTo(SenatorElementKinds, MaxNodes)}
      \cup {NoFileUpper}

SenatorPageInit ==
    /\ tparser = "parse_senator_committees"
    /\ tinput \in SenatorPages
    /\ toutput = <<>>
    /\ tpc = "input"

ParseSenatorPage ==
    /\ tpc = "input"
    /\ tparser = "parse_senator_committees"
    /\ toutput' = parse_senator_committees(tinput)
    /\ tpc' = "returned"
    /\ UNCHANGED <<tparser, tinput>>
    /\ UNCHANGED <<nvars, uvars, pvars>>

-----------------------------------------------------------------------------
(* One call of an upper-chamber listing parser on one card *)

\* lines of a card's get_text()
LineBirth == LabelBirth \o <<" ", "1">>

LineBirthOrdm == <<"x", " ">> \o LabelBirth \o <<"ordm">>

LineGroup == <<" ">> \o LabelGroup \o <<" ", "thorn">>

\* the label as the parser's literal has it (in the markup, character
\* references give these characters)
LineConstituency == LabelConstituency \o <<" ", "ordm">>

\* the label as ISO-8859-1 decoding gives it from ISO-8859-2 bytes
LineConstituencyLatin1 ==
    <<"C","i","r","c","u","m","s","c","r","i","p","thorn","i","a",
      " ","e","l","e","c","t","o","r","a","l","atilde"," ","C">>

CardLineKinds ==
    {LineBirth, LineBirthOrdm, LineGroup, LineConstituency,
     LineConstituencyLatin1, <<"A">>, <<" ">>}

RECURSIVE JoinLines(_)
JoinLines(lines) ==
    IF lines = <<>> THEN <<>>
    ELSE lines[1] \o <<"\n">> \o JoinLines(Tail(lines))

CardDocs ==
    {<<Card(Anchor(PyStr(PARLID \o <<"7">>), <<" ", "A", " ", "ordm">>),
            JoinLines(lines))>> :
        lines \in SeqsUpTo(CardLineKinds, MaxRows)}

CardParsers == {"extract_senators_from_file", "extract_senators"}

CardsInit ==
    /\ tparser \in CardParsers
    /\ tinput \in CardDocs
    /\ toutput = <<>>
    /\ tpc = "input"

ParseCards ==
    /\ tpc = "input"
    /\ tparser \in CardParsers
    /\ toutput' = IF tparser = "extract_senators_from_file"
                  THEN extract_senators_from_file(tinput)
                  ELSE extract_senators(tinput)
    /\ tpc' = "returned"
    /\ UNCHANGED <<tparser, tinput>>
    /\ UNCHANGED <<nvars, uvars, pvars>>

-----------------------------------------------------------------------------
(* Specifications *)

vars == <<nvars, uvars, pvars, tvars>>

Init == PipeInit /\ NormIdle /\ UrlIdle /\ ParserIdle

Spec == Init /\ [][Next]_vars

InitNorm == NormInit /\ UrlIdle /\ PipeIdle /\ ParserIdle

SpecNorm == InitNorm /\ [][NormNext]_vars

InitUrl == UrlInit /\ NormIdle /\ PipeIdle /\ ParserIdle

SpecUrl == InitUrl /\ [][UrlNext]_vars

InitDeputyPage == DeputyPageInit /\ NormIdle /\ UrlIdle /\ PipeIdle

SpecDeputyPage == InitDeputyPage /\ [][ParseDeputyPage]_vars

InitSenatorPage == SenatorPageInit /\ NormIdle /\ UrlIdle /\ PipeIdle

SpecSenatorPage == InitSenatorPage /\ [][ParseSenatorPage]_vars

InitCards == CardsInit /\ NormIdle /\ UrlIdle /\ PipeIdle

SpecCards == InitCards /\ [][ParseCards]_vars

-----------------------------------------------------------------------------
(* Claims *)

\* the rows of the output that were written for the record at position k
RECURSIVE RowsOfFrom(_, _)
RowsOfFrom(k, j) ==
    IF j > Len(csv.rows) THEN <<>>
    ELSE (IF emitted[j] = k THEN <<csv.rows[j]>> ELSE <<>>)
            \o RowsOfFrom(k, j + 1)

RowsOf(k) == RowsOfFrom(k, 1)

\* the basic fields of a record, in the column order of its source's header
BasicFields(r) ==
    IF chamber = "lower" THEN <<r.name, r.url, r.id, r.group>>
    ELSE <<r.name, r.url, r.id, r.birth_date, r.constituency, r.group>>

\* the committee columns of the source's header, all empty
EmptyCommitteeFields ==
    IF chamber = "lower" THEN << <<>>, <<>>, <<>> >> ELSE << <<>>, <<>> >>

\* the committee columns of the source's header for one association
CommitteeFields(c) ==
    IF chamber = "lower"
    THEN <<c.name, c.url, IF c.role = NoRole THEN <<>> ELSE c.role.v>>
    ELSE <<c.name, c.url>>

PlaceholderRow(r) == BasicFields(r) \o EmptyCommitteeFields

HasLocalFile(k) == records[k].local_file # NoLocalFile

\* the associations the detail parser yields for the record at position k
\* (which has a local_file)
Committees(k) ==
    IF chamber = "lower"
    THEN parse_deputy_committees(files[records[k].local_file.v])
    ELSE parse_senator_committees(files[records[k].local_file.v])

FetchEvents == SelectSeq(events, LAMBDA e : e.ev = "fetch")

DownloadOver == pc \in {"write", "completed"}

\* C1: every Basic Record of the listing appears in at least one row of the
\* final output, and a record left without local_file is emitted as exactly
\* one placeholder row with empty committee fields.
C1_EveryRecordEmitted ==
    pc = "completed" =>
        \A k \in 1..Len(records) :
            /\ RowsOf(k) # <<>>
            /\ ~HasLocalFile(k) => RowsOf(k) = <<PlaceholderRow(records[k])>>

\* C2: a legislator whose association list is empty gets exactly one row,
\* carrying all basic fields unchanged and every committee field empty, with
\* as many columns as the header of its source.
C2_EmptyAssociationsOneFullRow ==
    pc = "completed" =>
        \A k \in 1..Len(records) :
            (HasLocalFile(k) /\ Committees(k) = <<>>) =>
                /\ RowsOf(k) = <<PlaceholderRow(records[k])>>
                /\ Len(RowsOf(k)[1]) = Len(csv.header)

C4_EmptyListingHeaderOnly ==
    (pc # "start" /\ records = <<>>) =>
        /\ pc = "returned"
        /\ events = <<>>
        /\ csv.written
        /\ csv.header = (IF chamber = "lower" THEN HeaderLower ELSE HeaderUpper)
        /\ csv.rows = <<>>

\* C4 as amended: with an empty record sequence the detail stages are never
\* invoked, the run ends, and no output file is written, not even a header.
C4_EmptyListingNoOutput ==
    (pc # "start" /\ records = <<>>) =>
        /\ pc = "returned"
        /\ events = <<>>
        /\ csv = NoCsv

\* a listing that has items, none of them qualifying, has been processed
C4_Witness ==
    /\ pc = "returned"
    /\ listing # <<>>
    /\ records = <<>>
    /\ events = <<>>
    /\ chamber = "upper"

\* C5: in cache mode no live fetch is ever issued; a legislator whose cached
\* file exists gets local_file set to it and one whose file is absent is
\* left without local_file.
C5_CacheModeNeverFetches ==
    use_cache =>
        /\ FetchEvents = <<>>
        /\ DownloadOver =>
              \A k \in 1..Len(records) :
                 LET fn == IF chamber = "lower" THEN DeputyFilename(records[k])
                           ELSE SenatorFilename(records[k])
                 IN  records[k].local_file =
                        (IF files[fn].exists THEN PyStr(fn) ELSE NoLocalFile)

\* the table of the lower-chamber listing that holds the data rows
MainTable == listing[Len(listing)]

\* the listing parser has just returned
ListingParsed == pc = "returned" \/ (pc = "download" /\ pos = 1)

\* C6: an item of the listing that yields no valid id is skipped on its own;
\* every item that does yield one produces its Basic Record, in order.
C6_BadItemSkippedAlone ==
    ListingParsed =>
        IF chamber = "lower"
        THEN IsDeputiesTable(MainTable) =>
                records = DeputyRows(DataRows(MainTable), 1)
        ELSE records = SenatorCards(listing, 1)

\* C7: in live-fetch mode every legislator of the listing is fetched exactly
\* once, in listing order, whatever the earlier fetches did, and a
\* legislator whose fetch failed has no local_file.
C7_LiveFetchOncePerLegislator ==
    (~use_cache /\ pc \in {"download", "write", "completed"}) =>
        /\ Len(FetchEvents) = (IF pc = "download" THEN pos - 1 ELSE Len(records))
        /\ \A n \in 1..Len(FetchEvents) :
              /\ FetchEvents[n].idx = n
              /\ ~FetchEvents[n].ok => ~HasLocalFile(n)

\* a failed first fetch was followed by a successful second one
C7_Witness ==
    /\ ~use_cache
    /\ pc = "completed"
    /\ Len(records) >= 3
    /\ ~FetchEvents[1].ok
    /\ FetchEvents[2].ok
    /\ ~FetchEvents[3].ok
    /\ HasLocalFile(2)

\* C8: between any two consecutive live fetches of a run the politeness
\* sleep elapses, whether the earlier fetch succeeded or failed.
C8_SleepBetweenFetches ==
    \A a, b \in 1..Len(events) :
        (a < b /\ events[a].ev = "fetch" /\ events[b].ev = "fetch") =>
            \E c \in (a + 1)..(b - 1) : events[c].ev = "sleep"

\* C9: the Character Normalizer is idempotent, normalize(normalize(x)) =
\* normalize(x) for every string x, and a non-string or empty input is
\* returned unchanged.
C9_NormalizerIdempotent ==
    /\ npc = "twice" => ntwice = nonce
    /\ (npc \in {"once", "twice"} /\ (ntext.type # "str" \/ ntext.v = <<>>))
          => nonce = ntext

\* a string holding a mis-decoded character has been normalised twice
C9_Witness ==
    /\ npc = "twice"
    /\ ntext.type = "str"
    /\ \E i \in 1..Len(ntext.v) : ntext.v[i] = "thorn"
    /\ nonce # ntext

\* C10: for every Basic Record of either listing parser, the id re-extracted
\* from the record's profile url with the parser's own pattern is the
\* record's id.
C10_ProfileUrlRoundTrip ==
    upc = "done" =>
        /\ DOMAIN uids = DOMAIN urecs
        /\ \A i \in DOMAIN urecs : uids[i] = PyStr(urecs[i].id)

\* a lower-chamber record whose href carried more after the digits of a
\* two-digit id has made the round trip
C10_Witness ==
    /\ upc = "done"
    /\ usource = "deputies_scraper"
    /\ Len(urecs) = 1
    /\ urecs[1].id = <<"2", "0">>
    /\ Contains(<<"&">>, udoc[1][2].link.href.v)

\* the items of the listing the parser iterates: the data rows of the
\* deputies table, or the cards
ListingItems == IF chamber = "lower" THEN DataRows(MainTable) ELSE listing

ItemQualifies(item) ==
    IF chamber = "lower" THEN RowQualifies(item) ELSE CardQualifies(item)

ItemRecord(item) ==
    IF chamber = "lower" THEN deputy_info(item) ELSE senator_info(item)

\* the position in the listing of its n-th qualifying item
NthQualifying(n) ==
    CHOOSE i \in 1..Len(ListingItems) :
        /\ ItemQualifies(ListingItems[i])
        /\ Cardinality({j \in 1..i : ItemQualifies(ListingItems[j])}) = n

\* the anchors of the committees section of a detail page, in document order
SectionAnchors(page) ==
    IF ~page.exists THEN <<>>
    ELSE IF chamber = "lower"
    THEN LET B == {b \in 1..Len(page.boxes) :
                     /\ page.boxes[b].h3.type = "str"
                     /\ Contains(MarkerLower, page.boxes[b].h3.v)}
         IN  IF B = {} \/ ~page.boxes[Min(B)].hasP THEN <<>>
             ELSE SelectSeq(page.boxes[Min(B)].contents,
                            LAMBDA e : e.kind = "a")
    ELSE LET H == {h \in 1..Len(page.elements) :
                     /\ page.elements[h].kind = "h5"
                     /\ page.elements[h].text = LabelUpper}
         IN  IF H = {} THEN <<>>
             ELSE SelectSeq(SubSeq(page.elements, Min(H) + 1,
                                   SpanEnd(page.elements, Min(H) + 1) - 1),
                            LAMBDA e : e.kind = "a")

\* the committee name and url columns an anchor of a detail page gives
AnchorColumns(a) ==
    IF chamber = "lower"
    THEN <<StrStrip(a.text), urljoin(CdepBaseUrl, a.href.v)>>
    ELSE <<fix_romanian_chars(PyStr(StrStrip(a.text))).v,
           urljoin(SenateBaseUrl, a.href.v)>>

\* the committee name and url columns of a row of the output
CommitteeColumns(row) ==
    IF chamber = "lower" THEN SubSeq(row, 5, 6) ELSE SubSeq(row, 7, 8)

\* C11: the listing parser returns the Basic Records in the document order
\* of the qualifying rows or cards; in the output all rows of an
\* earlier-listed legislator precede all rows of a later-listed one; and the
\* rows of one legislator follow the document order of the committee anchors
\* of the detail page.
C11_DocumentOrderPreserved ==
    /\ (ListingParsed /\ records # <<>>) =>
          \A k \in 1..Len(records) :
              records[k] = ItemRecord(ListingItems[NthQualifying(k)])
    /\ DownloadOver =>
          /\ \A j \in 1..(Len(emitted) - 1) : emitted[j] <= emitted[j + 1]
          /\ \A j \in 1..Len(emitted) :
                SubSeq(csv.rows[j], 1, 3) =
                    SubSeq(BasicFields(records[emitted[j]]), 1, 3)
    /\ pc = "completed" =>
          \A k \in 1..Len(records) :
              (HasLocalFile(k) /\ Committees(k) # <<>>) =>
                  LET anchors == SectionAnchors(files[records[k].local_file.v])
                      rows    == RowsOf(k)
                  IN  /\ Len(rows) = Len(anchors)
                      /\ \A j \in 1..Len(anchors) :
                            CommitteeColumns(rows[j]) = AnchorColumns(anchors[j])

\* a completed run over two different legislators, the earlier-listed one
\* with two committee rows, the later-listed one with rows of its own
C11_Witness ==
    /\ pc = "completed"
    /\ Len(records) >= 2
    /\ records[1].id # records[2].id
    /\ Len(RowsOf(1)) = 2
    /\ CommitteeColumns(RowsOf(1)[1]) # CommitteeColumns(RowsOf(1)[2])
    /\ RowsOf(2) # <<>>

\* the child nodes of the committees paragraph of a deputy page
CommitteesParagraph(page) ==
    IF ~page.exists THEN <<>>
    ELSE LET B == {b \in 1..Len(page.boxes) :
                     /\ page.boxes[b].h3.type = "str"
                     /\ Contains(MarkerLower, page.boxes[b].h3.v)}
         IN  IF B = {} \/ ~page.boxes[Min(B)].hasP THEN <<>>
             ELSE page.boxes[Min(B)].contents

\* the position of the n-th anchor among nodes; past the end when there are
\* fewer than n anchors
NthAnchor(nodes, n) ==
    LET I == {i \in 1..Len(nodes) :
                /\ nodes[i].kind = "a"
                /\ Cardinality({j \in 1..i : nodes[j].kind = "a"}) = n}
    IN  IF I = {} THEN Len(nodes) + 1 ELSE CHOOSE i \in I : TRUE

NumAnchors(nodes) == Cardinality({i \in 1..Len(nodes) : nodes[i].kind = "a"})

\* the positions between lo and hi of the text nodes that are non-empty after
\* the trimming of whitespace and dashes
RoleTextsBetween(nodes, lo, hi) ==
    {i \in (lo + 1)..(hi - 1) :
        /\ nodes[i].kind = "text"
        /\ StrStripChars(nodes[i].text, RoleStrip) # <<>>}

Max(S) == CHOOSE x \in S : \A y \in S : y <= x

\* C12: over the child nodes of the committees paragraph, each anchor starts
\* a new association with no role; a text node that is non-empty after
\* trimming sets the role of the most recently started association; text
\* before the first anchor is discarded.
C12_AnchorStartsRoleFollows ==
    (tparser = "parse_deputy_committees" /\ tpc = "returned") =>
        LET nodes == CommitteesParagraph(tinput)
        IN  /\ Len(toutput) = NumAnchors(nodes)
            /\ \A n \in 1..Len(toutput) :
                  LET i == NthAnchor(nodes, n)
                      R == RoleTextsBetween(nodes, i, NthAnchor(nodes, n + 1))
                  IN  /\ toutput[n].name = StrStrip(nodes[i].text)
                      /\ toutput[n].role =
                            (IF R = {} THEN NoRole
                             ELSE PyStr(StrStripChars(nodes[Max(R)].text,
                                                      RoleStrip)))

\* C13: no heading with the exact label text gives an empty list; otherwise
\* there is one association for every anchor after the labelled heading and
\* before the next heading of the same tag kind, and none for any anchor at
\* or after that next heading.
C13_AnchorsOfLabelledSpan ==
    (tparser = "parse_senator_committees" /\ tpc = "returned") =>
        LET elements == tinput.elements
            H == {h \in 1..Len(elements) : elements[h] = H5(LabelUpper)}
        IN  IF H = {} THEN toutput = <<>>
            ELSE LET h5   == Min(H)
                     N    == {e \in (h5 + 1)..Len(elements) :
                                elements[e].kind = "h5"}
                     nxt  == IF N = {} THEN Len(elements) + 1 ELSE Min(N)
                     span == SubSeq(elements, h5 + 1, nxt - 1)
                 IN  /\ Len(toutput) = NumAnchors(span)
                     /\ \A n \in 1..Len(toutput) :
                           toutput[n].name =
                             fix_romanian_chars(PyStr(StrStrip(
                                 span[NthAnchor(span, n)].text))).v

\* the lines of a card's text
CardLines(card) == StrSplit(card.text, "\n")

\* the text that follows the first occurrence of label in line
TextAfter(label, line) ==
    LET i == Min({j \in 1..Len(line) : IsPrefixAt(label, line, j)})
    IN  SubSeq(line, i + Len(label), Len(line))

\* the text after the label on the (last) line of the card that carries it,
\* trimmed; empty when no line carries it
FieldAfterLabel(card, label) ==
    LET M == {i \in 1..Len(CardLines(card)) : Contains(label, CardLines(card)[i])}
    IN  IF M = {} THEN <<>>
        ELSE StrStrip(TextAfter(label, CardLines(card)[Max(M)]))

\* the Character Normalizer of the called parser's file
CardNormalize(text) ==
    IF tparser = "extract_senators_from_file"
    THEN fix_romanian_chars(PyStr(text)).v
    ELSE fix_romanian_chars_basic(PyStr(text)).v

\* C14: for each card, birth date, constituency and group are the trimmed
\* text that follows the field's label on the matching line (the label is
\* not part of the value), empty when no line carries the label, and every
\* extracted text field is passed through the Character Normalizer.
C14_FieldIsTextAfterLabel ==
    (tparser \in CardParsers /\ tpc = "returned") =>
        /\ Len(toutput) = Len(tinput)
        /\ \A k \in 1..Len(toutput) :
              /\ toutput[k].name =
                    CardNormalize(StrStrip(tinput[k].link.text))
              /\ toutput[k].birth_date =
                    CardNormalize(FieldAfterLabel(tinput[k], LabelBirth))
              /\ toutput[k].constituency =
                    CardNormalize(FieldAfterLabel(tinput[k], LabelConstituency))
              /\ toutput[k].group =
                    CardNormalize(FieldAfterLabel(tinput[k], LabelGroup))

====
